---- MODULE Spec2Model ----
(***************************************************************************)
(* const-cbor: the CBOR encoder (src/src/encode/mod.rs), its bounded       *)
(* buffer writer (src/src/encode/cursor.rs) and the value tree             *)
(* (src/src/value.rs).                                                     *)
(*                                                                         *)
(* Bytes are the integers 0..255.  A u64 is kept as four 16-bit limbs,     *)
(* most significant first, because TLC's integers are 32 bits wide:       *)
(* <<l3, l2, l1, l0>> stands for l3*2^48 + l2*2^32 + l1*2^16 + l0.         *)
(***************************************************************************)
EXTENDS Integers, Sequences, FiniteSets, TLC

VARIABLES
    hmajor,     \* encode_header: the `major` argument
    hvalue,     \* encode_header: the `value` argument (u64)
    hres,       \* encode_header: the returned tuple, once called
    value,      \* encode: the value tree passed as `value`
    data,       \* Cursor.data: the caller's buffer, data[i+1] is byte i
    pos,        \* Cursor.pos
    stack,      \* the encode_value activations, innermost last
    result,     \* what encode returned, once it has
    pc,         \* where the caller is: "ready", "run", "done", "idle"
    attempts,   \* number of write_byte calls made so far
    last,       \* the latest write_byte call: its argument, pre-state, result
    narg,       \* Value::negative: the `value` argument (i64, two's complement)
    checks,     \* whether the build has overflow checks (debug-assertions)
    nres,       \* Value::negative: what the call produced, once made
    calls,      \* number of encode calls begun on the same buffer
    seen,       \* the outcomes of the earlier encode calls, by value
    active,     \* the encode call that is running, where several calls are made
    parked,     \* the state of each call that is not running
    bufs,       \* the buffer each call was given, as it was before the call
    sarg,       \* encoded_size: the tree passed, one subtree shared at each level
    width,      \* the bits of usize on the target
    sres        \* encoded_size: what the call produced, once made

vars == <<hmajor, hvalue, hres, value, data, pos, stack, result, pc, attempts, last,
          narg, checks, nres, calls, seen, active, parked, bufs, sarg, width, sres>>

headerVars == <<hmajor, hvalue, hres>>
encodeVars == <<value, data, pos, stack, result, pc, attempts, last>>
negativeVars == <<narg, checks, nres>>
reuseVars == <<calls, seen>>
pairVars == <<active, parked, bufs>>
sizeVars == <<sarg, width, sres>>
sideVars == <<negativeVars, reuseVars, pairVars, sizeVars>>

\* ------------------------------------------------------------------ bytes
Byte == 0..255

RECURSIVE BitOr(_, _)
\* a | b on unsigned integers
BitOr(a, b) ==
    IF a = 0 THEN b
    ELSE IF b = 0 THEN a
    ELSE (IF (a % 2 = 1) \/ (b % 2 = 1) THEN 1 ELSE 0) + 2 * BitOr(a \div 2, b \div 2)

\* x << k that shifts one position short
ShlU8Short(x, k) == (x * (2 ^ (k - 1))) % 256

\* x << k on a u8: the bits shifted out of the byte are dropped
ShlU8(x, k) == (x * (2 ^ k)) % 256

\* ------------------------------------------------------------------ u64
Limb == 0..65535

\* the u64 of a small natural number (n < 2^31)
U64FromNat(n) == <<0, 0, n \div 65536, n % 65536>>

\* a < b where a <= b is meant
U64Lt(a, b) ==
    \E i \in 1..4 : /\ a[i] < b[i]
                    /\ \A j \in 1..(i - 1) : a[j] = b[j]

\* a <= b on u64
U64Leq(a, b) ==
    \/ a = b
    \/ \E i \in 1..4 : /\ a[i] < b[i]
                       /\ \A j \in 1..(i - 1) : a[j] = b[j]

\* byte number k of a u64, byte 0 being the least significant
U64Byte(v, k) ==
    LET limb == v[4 - (k \div 2)]
    IN  IF k % 2 = 1 THEN limb \div 256 ELSE limb % 256

\* (v >> s) as u8, for a shift s that is a multiple of 8
ShrAsU8(v, s) == U64Byte(v, s \div 8)

\* v as u8
AsU8(v) == ShrAsU8(v, 0)

\* u8::MAX as u64, u16::MAX as u64, u32::MAX as u64
\* u64 wrapping addition, limb by limb with the carry
WrappingAdd(a, b) ==
    LET s4 == a[4] + b[4]
        s3 == a[3] + b[3] + (s4 \div 65536)
        s2 == a[2] + b[2] + (s3 \div 65536)
        s1 == a[1] + b[1] + (s2 \div 65536)
    IN  <<s1 % 65536, s2 % 65536, s3 % 65536, s4 % 65536>>

\* the bitwise complement of a 64-bit pattern
Not64(a) == [i \in 1..4 |-> 65535 - a[i]]

U8_MAX == U64FromNat(255)
U16_MAX == U64FromNat(65535)
U32_MAX == <<0, 0, 65535, 65535>>

\* [0; 8]
Zero8 == <<0, 0, 0, 0, 0, 0, 0, 0>>

\* --------------------------------------------------------- encode_header
MajorType == [Unsigned |-> 0, Negative |-> 1, Bytes |-> 2, Text |-> 3,
              Array |-> 4, Map |-> 5, Tag |-> 6, Simple |-> 7]

\* the constants of encode/major_type.rs
major_type == [UNSIGNED |-> 0, NEGATIVE |-> 1, BYTES |-> 2, TEXT |-> 3, ARRAY |-> 4,
               MAP |-> 5, TAG |-> 6, SIMPLE |-> 7, FLOAT |-> 9]

\* encode_header with the extra bytes least significant first
encode_header_le(major, v) ==
    LET major_shift == ShlU8(major, 5)
    IN  IF U64Leq(v, U64FromNat(23)) THEN
            [header |-> BitOr(major_shift, AsU8(v)), extra |-> Zero8, len |-> 0]
        ELSE IF U64Leq(v, U8_MAX) THEN
            [header |-> BitOr(major_shift, 24),
             extra  |-> <<AsU8(v), 0, 0, 0, 0, 0, 0, 0>>,
             len    |-> 1]
        ELSE IF U64Leq(v, U16_MAX) THEN
            [header |-> BitOr(major_shift, 25),
             extra  |-> <<AsU8(v), ShrAsU8(v, 8), 0, 0, 0, 0, 0, 0>>,
             len    |-> 2]
        ELSE IF U64Leq(v, U32_MAX) THEN
            [header |-> BitOr(major_shift, 26),
             extra  |-> <<AsU8(v), ShrAsU8(v, 8), ShrAsU8(v, 16), ShrAsU8(v, 24),
                          0, 0, 0, 0>>,
             len    |-> 4]
        ELSE
            [header |-> BitOr(major_shift, 27),
             extra  |-> <<AsU8(v), ShrAsU8(v, 8), ShrAsU8(v, 16), ShrAsU8(v, 24),
                          ShrAsU8(v, 32), ShrAsU8(v, 40), ShrAsU8(v, 48), ShrAsU8(v, 56)>>,
             len    |-> 8]

\* the returned tuple (u8, [u8; 8], usize)
encode_header(major, v) ==
    LET major_shift == ShlU8(major, 5)
    IN  IF U64Leq(v, U64FromNat(23)) THEN
            [header |-> BitOr(major_shift, AsU8(v)), extra |-> Zero8, len |-> 0]
        ELSE IF U64Leq(v, U8_MAX) THEN
            [header |-> BitOr(major_shift, 24),
             extra  |-> <<AsU8(v), 0, 0, 0, 0, 0, 0, 0>>,
             len    |-> 1]
        ELSE IF U64Leq(v, U16_MAX) THEN
            [header |-> BitOr(major_shift, 25),
             extra  |-> <<ShrAsU8(v, 8), AsU8(v), 0, 0, 0, 0, 0, 0>>,
             len    |-> 2]
        ELSE IF U64Leq(v, U32_MAX) THEN
            [header |-> BitOr(major_shift, 26),
             extra  |-> <<ShrAsU8(v, 24), ShrAsU8(v, 16), ShrAsU8(v, 8), AsU8(v),
                          0, 0, 0, 0>>,
             len    |-> 4]
        ELSE
            [header |-> BitOr(major_shift, 27),
             extra  |-> <<ShrAsU8(v, 56), ShrAsU8(v, 48), ShrAsU8(v, 40), ShrAsU8(v, 32),
                          ShrAsU8(v, 24), ShrAsU8(v, 16), ShrAsU8(v, 8), AsU8(v)>>,
             len    |-> 8]

\* ------------------------------------------------------------------ Value
\* The nine variants of the enum.  A u64 payload is a limb tuple, a byte
\* string a sequence of bytes, a &str the sequence of its characters (code
\* points), an f64 its 64-bit pattern, a slice a sequence.
Unsigned(n) == [tag |-> "Unsigned", n |-> n]
Negative(n) == [tag |-> "Negative", n |-> n]
Bytes(b) == [tag |-> "Bytes", b |-> b]
Text(t) == [tag |-> "Text", t |-> t]
Array(items) == [tag |-> "Array", items |-> items]
Map(pairs) == [tag |-> "Map", pairs |-> pairs]
Tag(t, item) == [tag |-> "Tag", n |-> t, item |-> item]
Simple(s) == [tag |-> "Simple", s |-> s]
Float(bits) == [tag |-> "Float", bits |-> bits]

\* Value::null, Value::bool
null == Simple(22)
bool(b) == Simple(IF b THEN 21 ELSE 20)

\* ---------------------------------------------------------- Value::negative
\* i64 values are their two's complement patterns
I64_MIN == <<32768, 0, 0, 0>>
I64_MAX == <<32767, 65535, 65535, 65535>>
IsNegativeI64(x) == x[1] >= 32768

\* i64 a + b: the wrapped sum and whether the true sum left the i64 range
I64Add(a, b) ==
    LET w == WrappingAdd(a, b)
    IN  [v |-> w,
         overflow |-> /\ IsNegativeI64(a) = IsNegativeI64(b)
                      /\ IsNegativeI64(w) # IsNegativeI64(a)]

\* i64 -a: the wrapped negation and whether the true one left the i64 range
I64Neg(a) ==
    [v |-> WrappingAdd(Not64(a), <<0, 0, 0, 1>>), overflow |-> a = I64_MIN]

NoValue == [kind |-> "none"]
Panic == [kind |-> "panic"]

\* Value::negative storing -value, the subtraction of one left out
negative_abs(v, overflow_checks) ==
    LET neg == I64Neg(v)
    IN  IF neg.overflow /\ overflow_checks THEN Panic
        ELSE [kind |-> "value", v |-> Negative(neg.v)]

\* Value::negative(value): Self::Negative((-(value + 1)) as u64).  An i64
\* operation that overflows panics where overflow checks are on and wraps
\* where they are off; `as u64` keeps the pattern.
negative(v, overflow_checks) ==
    LET sum == I64Add(v, <<0, 0, 0, 1>>)
    IN  IF sum.overflow /\ overflow_checks THEN Panic
        ELSE LET neg == I64Neg(sum.v)
             IN  IF neg.overflow /\ overflow_checks THEN Panic
                 ELSE [kind |-> "value", v |-> Negative(neg.v)]

\* the UTF-8 bytes of one character
Utf8Char(c) ==
    IF c < 128 THEN <<c>>
    ELSE IF c < 2048 THEN <<192 + (c \div 64), 128 + (c % 64)>>
    ELSE IF c < 65536 THEN
        <<224 + (c \div 4096), 128 + ((c \div 64) % 64), 128 + (c % 64)>>
    ELSE <<240 + (c \div 262144), 128 + ((c \div 4096) % 64),
           128 + ((c \div 64) % 64), 128 + (c % 64)>>

RECURSIVE as_bytes(_)
\* str::as_bytes: a &str is held as the UTF-8 bytes of its characters
as_bytes(t) ==
    IF t = <<>> THEN <<>> ELSE Utf8Char(Head(t)) \o as_bytes(Tail(t))

\* the length of a string counted in characters
str_len_chars(t) == Len(t)

\* str::len: the length in bytes
str_len(t) == Len(as_bytes(t))

\* f64::to_bits().to_le_bytes()
to_le_bytes(bits) == [k \in 1..8 |-> U64Byte(bits, k - 1)]

\* f64::to_bits().to_be_bytes()
to_be_bytes(bits) == [k \in 1..8 |-> U64Byte(bits, 8 - k)]

\* ----------------------------------------------------------------- Cursor
\* a cursor kept from one call to the next: the position is not reset
CursorNewStale(buf) == [data |-> buf, pos |-> pos]

\* Cursor::new
CursorNew(buf) == [data |-> buf, pos |-> 0]

\* write_byte that also clears the byte after the one it stores
write_byte_terminated(c, byte) ==
    IF c.pos < Len(c.data)
        THEN [data |-> [i \in 1..Len(c.data) |->
                            IF i = c.pos + 1 THEN byte
                            ELSE IF i = c.pos + 2 THEN 0 ELSE c.data[i]],
              pos |-> c.pos + 1, res |-> "Ok"]
        ELSE [data |-> c.data, pos |-> c.pos, res |-> "BufferOverflow"]

\* write_byte without the bound test (get_unchecked_mut): past the end the
\* store lands outside the buffer
write_byte_unchecked(c, byte) ==
    [data |-> [i \in 1..Len(c.data) |-> IF i = c.pos + 1 THEN byte ELSE c.data[i]],
     pos |-> c.pos + 1, res |-> "Ok"]

\* write_byte with self.data[self.pos] |= byte
write_byte_or(c, byte) ==
    IF c.pos < Len(c.data)
        THEN [data |-> [c.data EXCEPT ![c.pos + 1] = BitOr(c.data[c.pos + 1], byte)],
              pos |-> c.pos + 1, res |-> "Ok"]
        ELSE [data |-> c.data, pos |-> c.pos, res |-> "BufferOverflow"]

\* write_byte that stores the byte and leaves the position where it was
write_byte_stuck(c, byte) ==
    IF c.pos < Len(c.data) THEN
        [data |-> [c.data EXCEPT ![c.pos + 1] = byte], pos |-> c.pos, res |-> "Ok"]
    ELSE
        [data |-> c.data, pos |-> c.pos, res |-> "BufferOverflow"]

\* write_byte that advances the position before it checks the bound
write_byte_eager(c, byte) ==
    IF c.pos < Len(c.data) THEN
        [data |-> [c.data EXCEPT ![c.pos + 1] = byte], pos |-> c.pos + 1, res |-> "Ok"]
    ELSE
        [data |-> c.data, pos |-> c.pos + 1, res |-> "BufferOverflow"]

\* Cursor::write_byte on the cursor c: the cursor after the call and the
\* Result it returns
write_byte(c, byte) ==
    IF c.pos < Len(c.data) THEN
        [data |-> [c.data EXCEPT ![c.pos + 1] = byte], pos |-> c.pos + 1, res |-> "Ok"]
    ELSE
        [data |-> c.data, pos |-> c.pos, res |-> "BufferOverflow"]

\* ----------------------------------------------------------- encoded_size
RECURSIVE SumSizesShort(_, _)
\* the loop of encoded_size leaving one iteration early: while i + 1 < len
SumSizesShort(sizes, i) ==
    IF i >= Len(sizes) THEN 0 ELSE sizes[i] + SumSizesShort(sizes, i + 1)

RECURSIVE SumSizes(_, _)
RECURSIVE encoded_size(_)
RECURSIVE encoded_size_keys(_)

\* the while loops of encoded_size: size += f(items[i]) for i = 0, 1, ...
SumSizes(sizes, i) ==
    IF i > Len(sizes) THEN 0 ELSE sizes[i] + SumSizes(sizes, i + 1)

\* encoded_size with the Map loop adding the size of each key only
encoded_size_keys(v) ==
    CASE v.tag = "Unsigned" -> 1 + encode_header(MajorType.Unsigned, v.n).len
      [] v.tag = "Negative" -> 1 + encode_header(MajorType.Negative, v.n).len
      [] v.tag = "Bytes" ->
            1 + encode_header(MajorType.Bytes, U64FromNat(Len(v.b))).len + Len(v.b)
      [] v.tag = "Text" ->
            1 + encode_header(MajorType.Text, U64FromNat(str_len(v.t))).len + str_len(v.t)
      [] v.tag = "Array" ->
            1 + encode_header(MajorType.Array, U64FromNat(Len(v.items))).len
              + SumSizes([i \in 1..Len(v.items) |-> encoded_size_keys(v.items[i])], 1)
      [] v.tag = "Map" ->
            1 + encode_header(MajorType.Map, U64FromNat(Len(v.pairs))).len
              + SumSizes([i \in 1..Len(v.pairs) |-> encoded_size_keys(v.pairs[i][1])], 1)
      [] v.tag = "Tag" ->
            1 + encode_header(MajorType.Tag, v.n).len + encoded_size_keys(v.item)
      [] v.tag = "Simple" -> 1 + encode_header(MajorType.Simple, U64FromNat(v.s)).len
      [] v.tag = "Float" -> 9

encoded_size(v) ==
    CASE v.tag = "Unsigned" -> 1 + encode_header(MajorType.Unsigned, v.n).len
      [] v.tag = "Negative" -> 1 + encode_header(MajorType.Negative, v.n).len
      [] v.tag = "Bytes" ->
            1 + encode_header(MajorType.Bytes, U64FromNat(Len(v.b))).len + Len(v.b)
      [] v.tag = "Text" ->
            1 + encode_header(MajorType.Text, U64FromNat(str_len(v.t))).len + str_len(v.t)
      [] v.tag = "Array" ->
            1 + encode_header(MajorType.Array, U64FromNat(Len(v.items))).len
              + SumSizes([i \in 1..Len(v.items) |-> encoded_size(v.items[i])], 1)
      [] v.tag = "Map" ->
            1 + encode_header(MajorType.Map, U64FromNat(Len(v.pairs))).len
              + SumSizes([i \in 1..Len(v.pairs) |->
                            encoded_size(v.pairs[i][1]) + encoded_size(v.pairs[i][2])], 1)
      [] v.tag = "Tag" -> 1 + encode_header(MajorType.Tag, v.n).len + encoded_size(v.item)
      [] v.tag = "Simple" -> 1 + encode_header(MajorType.Simple, U64FromNat(v.s)).len
      [] v.tag = "Float" -> 9

\* ------------------------------------------------------------ encode_value
\* the Negative arm passing MajorType::Unsigned to encode_header
HeaderOfNegativeAsUnsigned(v) ==
    CASE v.tag = "Unsigned" -> encode_header(MajorType.Unsigned, v.n)
      [] v.tag = "Negative" -> encode_header(MajorType.Unsigned, v.n)
      [] v.tag = "Bytes" -> encode_header(MajorType.Bytes, U64FromNat(Len(v.b)))
      [] v.tag = "Text" -> encode_header(MajorType.Text, U64FromNat(str_len(v.t)))
      [] v.tag = "Array" -> encode_header(MajorType.Array, U64FromNat(Len(v.items)))
      [] v.tag = "Map" -> encode_header(MajorType.Map, U64FromNat(Len(v.pairs)))
      [] v.tag = "Tag" -> encode_header(MajorType.Tag, v.n)
      [] v.tag = "Simple" -> encode_header(MajorType.Simple, U64FromNat(v.s))
      [] v.tag = "Float" ->
            [header |-> BitOr(ShlU8(MajorType.Simple, 5), 27), extra |-> Zero8, len |-> 0]

\* the Simple arm writing (7 << 5) | s as its only byte
HeaderOfSimpleInline(v) ==
    CASE v.tag = "Unsigned" -> encode_header(MajorType.Unsigned, v.n)
      [] v.tag = "Negative" -> encode_header(MajorType.Negative, v.n)
      [] v.tag = "Bytes" -> encode_header(MajorType.Bytes, U64FromNat(Len(v.b)))
      [] v.tag = "Text" -> encode_header(MajorType.Text, U64FromNat(str_len(v.t)))
      [] v.tag = "Array" -> encode_header(MajorType.Array, U64FromNat(Len(v.items)))
      [] v.tag = "Map" -> encode_header(MajorType.Map, U64FromNat(Len(v.pairs)))
      [] v.tag = "Tag" -> encode_header(MajorType.Tag, v.n)
      [] v.tag = "Simple" ->
            [header |-> BitOr(ShlU8(MajorType.Simple, 5), v.s), extra |-> Zero8, len |-> 0]
      [] v.tag = "Float" ->
            [header |-> BitOr(ShlU8(MajorType.Simple, 5), 27), extra |-> Zero8, len |-> 0]

\* the Map arm taking the number of keys and values for the magnitude
HeaderOfItems(v) ==
    CASE v.tag = "Unsigned" -> encode_header(MajorType.Unsigned, v.n)
      [] v.tag = "Negative" -> encode_header(MajorType.Negative, v.n)
      [] v.tag = "Bytes" -> encode_header(MajorType.Bytes, U64FromNat(Len(v.b)))
      [] v.tag = "Text" -> encode_header(MajorType.Text, U64FromNat(str_len(v.t)))
      [] v.tag = "Array" -> encode_header(MajorType.Array, U64FromNat(Len(v.items)))
      [] v.tag = "Map" -> encode_header(MajorType.Map, U64FromNat(2 * Len(v.pairs)))
      [] v.tag = "Tag" -> encode_header(MajorType.Tag, v.n)
      [] v.tag = "Simple" -> encode_header(MajorType.Simple, U64FromNat(v.s))
      [] v.tag = "Float" ->
            [header |-> BitOr(ShlU8(MajorType.Simple, 5), 27), extra |-> Zero8, len |-> 0]

\* The header an arm of encode_value writes first: encode_header of the
\* arm's major type and magnitude; the Float arm writes a fixed byte and
\* has no extra bytes.
HeaderOf(v) ==
    CASE v.tag = "Unsigned" -> encode_header(MajorType.Unsigned, v.n)
      [] v.tag = "Negative" -> encode_header(MajorType.Negative, v.n)
      [] v.tag = "Bytes" -> encode_header(MajorType.Bytes, U64FromNat(Len(v.b)))
      [] v.tag = "Text" -> encode_header(MajorType.Text, U64FromNat(str_len(v.t)))
      [] v.tag = "Array" -> encode_header(MajorType.Array, U64FromNat(Len(v.items)))
      [] v.tag = "Map" -> encode_header(MajorType.Map, U64FromNat(Len(v.pairs)))
      [] v.tag = "Tag" -> encode_header(MajorType.Tag, v.n)
      [] v.tag = "Simple" -> encode_header(MajorType.Simple, U64FromNat(v.s))
      [] v.tag = "Float" ->
            [header |-> BitOr(ShlU8(MajorType.Simple, 5), 27), extra |-> Zero8, len |-> 0]

\* the payload loop leaving out the last byte of a byte string
PayloadOfShort(v) ==
    CASE v.tag = "Bytes" -> SubSeq(v.b, 1, Len(v.b) - 1)
      [] v.tag = "Text" -> as_bytes(v.t)
      [] v.tag = "Float" -> to_be_bytes(v.bits)
      [] OTHER -> <<>>

\* The bytes an arm writes one by one after the header: the payload of
\* Bytes and Text, the bit pattern of Float.
PayloadOf(v) ==
    CASE v.tag = "Bytes" -> v.b
      [] v.tag = "Text" -> as_bytes(v.t)
      [] v.tag = "Float" -> to_be_bytes(v.bits)
      [] OTHER -> <<>>

\* the Tag arm returning after its header, the nested item never encoded
ChildrenOfBareTag(v) ==
    CASE v.tag = "Array" -> v.items
      [] v.tag = "Map" ->
            [k \in 1..(2 * Len(v.pairs)) |-> v.pairs[(k + 1) \div 2][2 - (k % 2)]]
      [] OTHER -> <<>>

\* the Array arm walking its items from the last to the first
ChildrenOfReversed(v) ==
    CASE v.tag = "Array" -> [k \in 1..Len(v.items) |-> v.items[Len(v.items) + 1 - k]]
      [] v.tag = "Map" ->
            [k \in 1..(2 * Len(v.pairs)) |-> v.pairs[(k + 1) \div 2][2 - (k % 2)]]
      [] v.tag = "Tag" -> <<v.item>>
      [] OTHER -> <<>>

\* The values an arm passes to encode_value, in the order of the calls:
\* the items of an Array, key then value of each pair of a Map, the item
\* of a Tag.
ChildrenOf(v) ==
    CASE v.tag = "Array" -> v.items
      [] v.tag = "Map" ->
            [k \in 1..(2 * Len(v.pairs)) |-> v.pairs[(k + 1) \div 2][2 - (k % 2)]]
      [] v.tag = "Tag" -> <<v.item>>
      [] OTHER -> <<>>

\* One activation of encode_value: its argument, where it stands ("header":
\* about to write the header byte; "extra", "payload": about to write byte
\* i of that loop; "items": about to call encode_value on child i; "ret":
\* about to return Ok(())), the cursor position it was entered with, and
\* the stretch of the buffer each finished child call wrote.
Frame(v, at) == [v |-> v, pc |-> "header", i |-> 0, start |-> at, kids |-> <<>>]

\* where an arm stands once the extra bytes are written
BodyPc(v) ==
    IF Len(PayloadOf(v)) > 0 THEN "payload"
    ELSE IF Len(ChildrenOf(v)) > 0 THEN "items"
    ELSE "ret"

Top == stack[Len(stack)]
SetTop(f) == [stack EXCEPT ![Len(stack)] = f]

NoResult == [kind |-> "none"]
NoCall == [called |-> FALSE, byte |-> 0, data |-> <<>>, pos |-> 0, res |-> "none"]
NoHeader == [called |-> FALSE, header |-> 0, extra |-> Zero8, len |-> 0]

\* cursor.write_byte(byte)? with the position taken back, on Err, to where
\* the value being encoded began
WriteRollingBack(byte, onOk) ==
    LET r == write_byte([data |-> data, pos |-> pos], byte)
    IN  /\ data' = r.data
        /\ pos' = IF r.res = "Ok" THEN r.pos ELSE Top.start
        /\ attempts' = attempts + 1
        /\ last' = [called |-> TRUE, byte |-> byte, data |-> data, pos |-> pos,
                    res |-> r.res]
        /\ IF r.res = "Ok"
           THEN /\ stack' = SetTop(onOk)
                /\ UNCHANGED <<result, pc>>
           ELSE /\ stack' = <<>>
                /\ result' = [kind |-> "Err", err |-> r.res]
                /\ pc' = "done"
        /\ UNCHANGED <<value, headerVars, sideVars>>

\* cursor.write_byte(byte) with the ? left out: the error is dropped and the
\* activation goes on
WriteUnchecked(byte, onOk) ==
    LET r == write_byte([data |-> data, pos |-> pos], byte)
    IN  /\ data' = r.data
        /\ pos' = r.pos
        /\ attempts' = attempts + 1
        /\ last' = [called |-> TRUE, byte |-> byte, data |-> data, pos |-> pos,
                    res |-> r.res]
        /\ stack' = SetTop(onOk)
        /\ UNCHANGED <<result, pc>>
        /\ UNCHANGED <<value, headerVars, sideVars>>

\* cursor.write_byte(byte)?  -- the call, and `onOk` as the activation
\* continues after Ok(()); on Err the ? operator returns the error from
\* every activation and encode returns it.
Write(byte, onOk) ==
    LET r == write_byte([data |-> data, pos |-> pos], byte)
    IN  /\ data' = r.data
        /\ pos' = r.pos
        /\ attempts' = attempts + 1
        /\ last' = [called |-> TRUE, byte |-> byte, data |-> data, pos |-> pos,
                    res |-> r.res]
        /\ IF r.res = "Ok"
           THEN /\ stack' = SetTop(onOk)
                /\ UNCHANGED <<result, pc>>
           ELSE /\ stack' = <<>>
                /\ result' = [kind |-> "Err", err |-> r.res]
                /\ pc' = "done"
        /\ UNCHANGED <<value, headerVars, sideVars>>

\* encode: let mut cursor = Cursor::new(buf); encode_value(value, &mut cursor)
Encode ==
    /\ pc = "ready"
    /\ LET c == CursorNew(data)
       IN  /\ data' = c.data
           /\ pos' = c.pos
           /\ stack' = <<Frame(value, c.pos)>>
    /\ pc' = "run"
    /\ UNCHANGED <<value, result, attempts, last, headerVars, sideVars>>

\* cursor.write_byte(header)?
WriteHeader ==
    /\ pc = "run" /\ stack # <<>> /\ Top.pc = "header"
    /\ LET h == HeaderOf(Top.v)
       IN  Write(h.header,
                 [Top EXCEPT !.pc = IF h.len > 0 THEN "extra" ELSE BodyPc(Top.v),
                             !.i = 0])

\* for i in 0..len { cursor.write_byte(extra[i])?; }
WriteExtra ==
    /\ pc = "run" /\ stack # <<>> /\ Top.pc = "extra"
    /\ LET h == HeaderOf(Top.v)
       IN  Write(h.extra[Top.i + 1],
                 IF Top.i + 1 < h.len
                 THEN [Top EXCEPT !.i = Top.i + 1]
                 ELSE [Top EXCEPT !.pc = BodyPc(Top.v), !.i = 0])

\* for &byte in bytes { cursor.write_byte(byte)?; }
WritePayload ==
    /\ pc = "run" /\ stack # <<>> /\ Top.pc = "payload"
    /\ LET p == PayloadOf(Top.v)
       IN  Write(p[Top.i + 1],
                 IF Top.i + 1 < Len(p)
                 THEN [Top EXCEPT !.i = Top.i + 1]
                 ELSE [Top EXCEPT !.pc = "ret", !.i = 0])

\* encode_value(child, cursor) is called
EnterChild ==
    /\ pc = "run" /\ stack # <<>> /\ Top.pc = "items"
    /\ stack' = Append(stack, Frame(ChildrenOf(Top.v)[Top.i + 1], pos))
    /\ UNCHANGED <<value, data, pos, result, pc, attempts, last, headerVars, sideVars>>

\* an item's encode_value returns and the loop goes round without i += 1
ReturnSameItem ==
    /\ pc = "run" /\ Len(stack) > 1 /\ Top.pc = "ret"
    /\ LET caller == stack[Len(stack) - 1]
       IN  stack' = [SubSeq(stack, 1, Len(stack) - 1) EXCEPT ![Len(stack) - 1] =
                [caller EXCEPT
                    !.kids = Append(caller.kids,
                                    [v |-> Top.v, from |-> Top.start, to |-> pos]),
                    !.pc = "items"]]
    /\ UNCHANGED <<value, data, pos, result, pc, attempts, last, headerVars, sideVars>>

\* a nested encode_value returns Ok(()) and its caller goes on
Return ==
    /\ pc = "run" /\ Len(stack) > 1 /\ Top.pc = "ret"
    /\ LET caller == stack[Len(stack) - 1]
           done == caller.i + 1
       IN  stack' = [SubSeq(stack, 1, Len(stack) - 1) EXCEPT ![Len(stack) - 1] =
                [caller EXCEPT
                    !.i = done,
                    !.kids = Append(caller.kids,
                                    [v |-> Top.v, from |-> Top.start, to |-> pos]),
                    !.pc = IF done < Len(ChildrenOf(caller.v)) THEN "items" ELSE "ret"]]
    /\ UNCHANGED <<value, data, pos, result, pc, attempts, last, headerVars, sideVars>>

\* the outermost encode_value returns Ok(()): encode returns Ok(cursor.pos)
Finish ==
    /\ pc = "run" /\ Len(stack) = 1 /\ Top.pc = "ret"
    /\ result' = [kind |-> "Ok", n |-> pos]
    /\ pc' = "done"
    /\ stack' = <<>>
    /\ UNCHANGED <<value, data, pos, attempts, last, headerVars, sideVars>>

Next == Encode \/ WriteHeader \/ WriteExtra \/ WritePayload \/ EnterChild \/ Return \/ Finish

\* ------------------------------------------------------------ the inputs
\* Bounds of the model.
MaxNodes == 4       \* every tree of at most this many values is encoded
WideLen == 24       \* length of the long byte string, array and map
CapSlack == 1       \* buffers run from 0 bytes to encoded_size + CapSlack
MaxCursorCap == 3   \* largest buffer the cursor is driven over on its own
MaxWrites == 5      \* most write_byte calls on that cursor

\* initial contents of the caller's buffer: every byte the same
Fills == {0, 255}

U(n) == U64FromNat(n)

\* magnitudes on both sides of every threshold of encode_header
RootMagnitudes ==
    {U(0), U(1), U(9), U(23), U(24), U(42), U(255), U(256), U(1000), U(65535),
     U(65536), U(1000000), U32_MAX, <<0, 1, 0, 0>>, <<0, 1, 0, 5>>,
     <<0, 232, 54437, 4096>>, <<258, 772, 1286, 1800>>, <<65535, 65535, 65535, 65535>>}

\* magnitudes with every mix of empty, small and full limbs
EncodedLimbs == {0, 1, 258, 65535}
EncodedMagnitudes == {<<a, b, c, d>> : a \in EncodedLimbs, b \in EncodedLimbs,
                                      c \in EncodedLimbs, d \in EncodedLimbs}

HeaderLimbs == {0, 1, 23, 24, 255, 256, 258, 65535}
HeaderMagnitudes == {<<a, b, c, d>> : a \in HeaderLimbs, b \in HeaderLimbs,
                                     c \in HeaderLimbs, d \in HeaderLimbs}

\* bit patterns of 0.0, 3.14159, NaN, +inf, -inf and the least subnormal
FloatBits ==
    {U(0), <<16393, 8697, 61467, 34414>>, <<32760, 0, 0, 0>>, <<32752, 0, 0, 0>>,
     <<65520, 0, 0, 0>>, U(1)}

Repeat(x, n) == [i \in 1..n |-> x]

\* values without children
RootLeaves ==
    {Unsigned(m) : m \in RootMagnitudes \cup EncodedMagnitudes}
    \cup {Negative(m) : m \in RootMagnitudes}
    \cup {Simple(s) : s \in 0..255} \cup {null, bool(TRUE), bool(FALSE)}
    \cup {Bytes(b) : b \in {<<>>, <<1, 2, 3>>, Repeat(170, WideLen - 1), Repeat(170, WideLen)}}
    \cup {Text(t) : t \in {<<>>, <<97, 98, 99>>, <<233, 8364>>, Repeat(97, WideLen)}}
    \cup {Float(f) : f \in FloatBits}

\* the leaves and tag numbers the trees are built from
TreeLeaves == {Unsigned(U(1)), Text(<<233>>)}
TreeTags == {U(0)}

\* the pairs of a sequence k1, v1, k2, v2, ...
PairsOf(f) == [k \in 1..(Len(f) \div 2) |-> <<f[2 * k - 1], f[2 * k]>>]

RECURSIVE TreesOf(_)
RECURSIVE ForestsOf(_)

\* the sequences of trees that hold n values in all
ForestsOf(n) ==
    IF n = 0 THEN {<<>>}
    ELSE UNION {{<<t>> \o f : t \in TreesOf(m), f \in ForestsOf(n - m)} : m \in 1..n}

\* the trees of exactly n values
TreesOf(n) ==
    IF n = 1 THEN TreeLeaves \cup {Array(<<>>), Map(<<>>)}
    ELSE {Array(f) : f \in ForestsOf(n - 1)}
         \cup {Map(PairsOf(f)) : f \in {g \in ForestsOf(n - 1) : Len(g) % 2 = 0}}
         \cup {Tag(t, x) : t \in TreeTags, x \in TreesOf(n - 1)}

T(t) == Text(t)

\* the documents of the repository's tests, and values that nest every variant
Documents ==
    {Array(<<Unsigned(U(1)), Unsigned(U(2))>>),
     Array(<<Array(<<Unsigned(U(1)), Unsigned(U(2))>>),
             Array(<<Unsigned(U(3)), Unsigned(U(4))>>)>>),
     Array(<<Array(<<Unsigned(U(1)), Unsigned(U(2))>>), T(<<116, 101, 115, 116>>)>>),
     Map(<<<<T(<<110, 97, 109, 101>>), T(<<116, 101, 115, 116>>)>>,
           <<T(<<99, 111, 108, 111, 114, 115>>),
             Array(<<T(<<98, 108, 117, 101>>), T(<<103, 114, 101, 101, 110>>)>>)>>>>),
     Map(<<<<Unsigned(U(1)), Simple(21)>>, <<Unsigned(U(1)), Simple(20)>>>>),
     Map(<<<<Unsigned(U(2)), Simple(21)>>, <<Unsigned(U(1)), Simple(20)>>>>),
     Tag(U(0), T(<<50, 48, 50, 52>>)),
     Tag(U(1000), Float(<<16393, 8697, 61467, 34414>>)),
     Tag(<<0, 1, 0, 0>>, Bytes(<<1, 2, 3>>)),
     Tag(U(24), Map(<<<<Negative(U(999)), Array(<<Negative(U(9))>>)>>>>)),
     Array(<<Unsigned(U(42)), Negative(U(9)), Bytes(<<1, 2>>), T(<<233>>),
             Array(<<Simple(22)>>), Map(<<<<Simple(21), Float(U(1))>>>>),
             Tag(U(2), Bytes(<<>>)), Simple(24), Float(<<32760, 0, 0, 0>>)>>),
     Array(Repeat(Unsigned(U(1)), WideLen)),
     Map(Repeat(<<Unsigned(U(1)), Simple(21)>>, WideLen))}

Values == RootLeaves \cup Documents \cup UNION {TreesOf(n) : n \in 1..MaxNodes}

\* --------------------------------------------------------- specifications
\* encode(value, buf) for every value of the universe and every buffer
\* the operations that are not being exercised, at rest
NegativeIdle == narg = U(0) /\ checks = TRUE /\ nres = NoValue
ReuseIdle == calls = 0 /\ seen = {}
PairIdle == active = 0 /\ parked = <<>> /\ bufs = <<>>
SizeIdle == sarg = [len |-> U(0), fan |-> 1, depth |-> 0] /\ width = 64 /\ sres = NoValue
SideIdle == NegativeIdle /\ ReuseIdle /\ PairIdle /\ SizeIdle

Init ==
    /\ value \in Values
    /\ \E cap \in 0..(encoded_size(value) + CapSlack), fill \in Fills :
            data = Repeat(fill, cap)
    /\ pos = 0
    /\ stack = <<>>
    /\ result = NoResult
    /\ pc = "ready"
    /\ attempts = 0
    /\ last = NoCall
    /\ hmajor = 0 /\ hvalue = U(0) /\ hres = NoHeader
    /\ SideIdle

Spec == Init /\ [][Next]_vars

\* encode_header(major, value) on its own
InitHeader ==
    /\ hmajor \in 0..7
    /\ hvalue \in HeaderMagnitudes
    /\ hres = NoHeader
    /\ value = Unsigned(U(0))
    /\ data = <<>>
    /\ pos = 0
    /\ stack = <<>>
    /\ result = NoResult
    /\ pc = "idle"
    /\ attempts = 0
    /\ last = NoCall
    /\ SideIdle

CallEncodeHeader ==
    /\ ~hres.called
    /\ LET h == encode_header(hmajor, hvalue)
       IN  hres' = [called |-> TRUE, header |-> h.header, extra |-> h.extra, len |-> h.len]
    /\ UNCHANGED <<hmajor, hvalue, encodeVars, sideVars>>

NextHeader == CallEncodeHeader

SpecHeader == InitHeader /\ [][NextHeader]_vars

\* a Cursor over a small buffer, write_byte called with any byte at any time
CursorBytes == {0, 1, 255}

InitCursor ==
    /\ \E cap \in 0..MaxCursorCap, fill \in Fills : data = CursorNew(Repeat(fill, cap)).data
    /\ pos = CursorNew(data).pos
    /\ attempts = 0
    /\ last = NoCall
    /\ value = Unsigned(U(0))
    /\ stack = <<>>
    /\ result = NoResult
    /\ pc = "idle"
    /\ hmajor = 0 /\ hvalue = U(0) /\ hres = NoHeader
    /\ SideIdle

CursorWrite ==
    /\ attempts < MaxWrites
    /\ \E byte \in CursorBytes :
         LET r == write_byte([data |-> data, pos |-> pos], byte)
         IN  /\ data' = r.data
             /\ pos' = r.pos
             /\ last' = [called |-> TRUE, byte |-> byte, data |-> data, pos |-> pos,
                         res |-> r.res]
    /\ attempts' = attempts + 1
    /\ UNCHANGED <<value, stack, result, pc, headerVars, sideVars>>

NextCursor == CursorWrite

SpecCursor == InitCursor /\ [][NextCursor]_vars

\* Value::negative(value) called with an i64, the value it builds encoded
\* into a buffer that is large enough
NegativeArgs ==
    {Not64(m) : m \in {n \in RootMagnitudes \cup EncodedMagnitudes : n[1] < 32768}}
    \cup {I64_MIN, WrappingAdd(I64_MIN, U(1)), Not64(U(22)), Not64(U(99))}
    \cup {U(0), U(1), U(10), I64_MAX, Not64(WrappingAdd(I64_MIN, U(1)))}

InitNegative ==
    /\ narg \in NegativeArgs
    /\ checks \in BOOLEAN
    /\ nres = NoValue
    /\ value = Unsigned(U(0))
    /\ \E fill \in Fills : data = Repeat(fill, 9)
    /\ pos = 0
    /\ stack = <<>>
    /\ result = NoResult
    /\ pc = "idle"
    /\ attempts = 0
    /\ last = NoCall
    /\ hmajor = 0 /\ hvalue = U(0) /\ hres = NoHeader
    /\ ReuseIdle /\ PairIdle /\ SizeIdle

\* let v = Value::negative(narg); then encode(&v, &mut buf) if it returned
CallNegative ==
    /\ pc = "idle" /\ nres = NoValue
    /\ nres' = negative(narg, checks)
    /\ IF nres'.kind = "value"
          THEN value' = nres'.v /\ pc' = "ready"
          ELSE value' = value /\ pc' = "panicked"
    /\ UNCHANGED <<narg, checks, data, pos, stack, result, attempts, last, headerVars,
                   reuseVars, pairVars, sizeVars>>

NextNegative == CallNegative \/ Encode \/ WriteHeader \/ WriteExtra \/ Finish

SpecNegative == InitNegative /\ [][NextNegative]_vars

\* encode called again and again with one buffer, as a caller that keeps a
\* single scratch array does
MaxCalls == 3

ReuseValues ==
    {Unsigned(U(1)), Unsigned(U(42)), Text(<<233>>),
     Array(<<Unsigned(U(1)), Unsigned(U(2))>>),
     Tag(U(0), Bytes(<<1, 2, 3>>))}

\* what a finished call handed back: the result and, on success, the bytes
\* below the returned count
Outcome ==
    [result |-> result,
     prefix |-> IF result.kind = "Ok" THEN SubSeq(data, 1, result.n) ELSE <<>>]

InitReuse ==
    /\ value \in ReuseValues
    /\ \E cap \in 0..(encoded_size(value) + CapSlack), fill \in Fills :
            data = Repeat(fill, cap)
    /\ pos = 0
    /\ stack = <<>>
    /\ result = NoResult
    /\ pc = "ready"
    /\ attempts = 0
    /\ last = NoCall
    /\ calls = 1
    /\ seen = {}
    /\ hmajor = 0 /\ hvalue = U(0) /\ hres = NoHeader
    /\ NegativeIdle /\ PairIdle /\ SizeIdle

\* the caller reads the outcome and calls encode(&next, &mut buf) on the
\* buffer as the last call left it
NextCall ==
    /\ pc = "done" /\ calls < MaxCalls
    /\ seen' = seen \cup {[v |-> value, out |-> Outcome]}
    /\ \E next \in ReuseValues : value' = next
    /\ calls' = calls + 1
    /\ pc' = "ready"
    /\ result' = NoResult
    /\ attempts' = 0
    /\ last' = NoCall
    /\ UNCHANGED <<data, pos, stack, headerVars, negativeVars, pairVars, sizeVars>>

NextReuse == NextCall \/ Next

SpecReuse == InitReuse /\ [][NextReuse]_vars

\* three encode calls on one value, each with a buffer and a Cursor of its
\* own: call 0 runs alone from start to end, then calls 1 and 2 run with
\* their steps interleaved in any order
Calls == {0, 1, 2}

PairValues ==
    {Unsigned(U(42)), Negative(U(1000)), Text(<<233>>),
     Array(<<Unsigned(U(1)), Unsigned(U(2))>>),
     Map(<<<<Unsigned(U(1)), Text(<<233>>)>>>>),
     Tag(U(0), Bytes(<<1, 2, 3>>))}

\* a call that has not started, on buffer buf
Fresh(buf) ==
    [data |-> buf, pos |-> 0, stack |-> <<>>, result |-> NoResult, pc |-> "ready",
     attempts |-> 0, last |-> NoCall]

\* the running call
Current ==
    [data |-> data, pos |-> pos, stack |-> stack, result |-> result, pc |-> pc,
     attempts |-> attempts, last |-> last]

CallState(t) == IF t = active THEN Current ELSE parked[t]

InitPair ==
    /\ value \in PairValues
    /\ \E cap \in 0..(encoded_size(value) + CapSlack), fill \in Fills, other \in Fills :
            bufs = [t \in Calls |-> Repeat(IF t = 2 THEN other ELSE fill, cap)]
    /\ active = 0
    /\ parked = [t \in Calls \ {0} |-> Fresh(bufs[t])]
    /\ data = bufs[0]
    /\ pos = 0
    /\ stack = <<>>
    /\ result = NoResult
    /\ pc = "ready"
    /\ attempts = 0
    /\ last = NoCall
    /\ hmajor = 0 /\ hvalue = U(0) /\ hres = NoHeader
    /\ NegativeIdle /\ ReuseIdle /\ SizeIdle

\* the running call is suspended with its position where it is, and call t
\* carries on with the buffer and the position it has
SwitchSharedPos(t) ==
    /\ t \in DOMAIN parked
    /\ parked[t].pc # "done"
    /\ active = 0 => pc = "done"
    /\ active' = t
    /\ parked' = [u \in (DOMAIN parked \ {t}) \cup {active} |->
                    IF u = active THEN Current ELSE parked[u]]
    /\ data' = parked[t].data
    /\ pos' = pos
    /\ stack' = parked[t].stack
    /\ result' = parked[t].result
    /\ pc' = parked[t].pc
    /\ attempts' = parked[t].attempts
    /\ last' = parked[t].last
    /\ UNCHANGED <<value, bufs, headerVars, negativeVars, reuseVars, sizeVars>>

\* the running call is suspended between two of its steps and call t
\* carries on: each call has its own `cursor` local and its own &mut buf
Switch(t) ==
    /\ t \in DOMAIN parked
    /\ parked[t].pc # "done"
    /\ active = 0 => pc = "done"
    /\ active' = t
    /\ parked' = [u \in (DOMAIN parked \ {t}) \cup {active} |->
                    IF u = active THEN Current ELSE parked[u]]
    /\ data' = parked[t].data
    /\ pos' = parked[t].pos
    /\ stack' = parked[t].stack
    /\ result' = parked[t].result
    /\ pc' = parked[t].pc
    /\ attempts' = parked[t].attempts
    /\ last' = parked[t].last
    /\ UNCHANGED <<value, bufs, headerVars, negativeVars, reuseVars, sizeVars>>

Reschedule == \E t \in Calls : Switch(t)

NextPair == Reschedule \/ Next

SpecPair == InitPair /\ [][NextPair]_vars

\* ------------------------------------------------- encoded_size in usize
\* usize a + b on a target of w bits: the wrapped sum and whether the true
\* sum left the word
UsizeAdd(a, b, w) ==
    LET s4 == a[4] + b[4]
        s3 == a[3] + b[3] + (s4 \div 65536)
        s2 == a[2] + b[2] + (s3 \div 65536)
        s1 == a[1] + b[1] + (s2 \div 65536)
        full == <<s1 % 65536, s2 % 65536, s3 % 65536, s4 % 65536>>
        above == 4 - (w \div 16)
    IN  [v |-> [i \in 1..4 |-> IF i > above THEN full[i] ELSE 0],
         overflow |-> s1 >= 65536 \/ \E i \in 1..above : full[i] # 0]

RECURSIVE SizeLoop(_, _, _, _)
\* while i < items.len() { size += encoded_size(&items[i]); i += 1 } over
\* k items that are all the same subtree, of size `item`
SizeLoop(size, item, k, w) ==
    IF k = 0 THEN size
    ELSE LET r == UsizeAdd(size.v, item.v, w)
         IN  SizeLoop([v |-> r.v, overflow |-> size.overflow \/ r.overflow], item, k - 1, w)

\* encoded_size of level d of the tree t, `below` being what encoded_size
\* returned for level d - 1: level 0 is Bytes of t.len bytes, level d > 0 is
\* an Array of t.fan copies of the Value of level d - 1 (Value is Copy and
\* holds its payload by reference).  The result is the wrapped usize and
\* whether an addition overflowed on the way.
encoded_size_usize(t, d, below, w) ==
    IF d = 0
        THEN UsizeAdd(U(1 + encode_header(MajorType.Bytes, t.len).len), t.len, w)
        ELSE SizeLoop([v |-> U(1 + encode_header(MajorType.Array, U(t.fan)).len),
                       overflow |-> below.overflow], below, t.fan, w)

\* targets: target_pointer_width of 16, 32 or 64
PointerWidths == {16, 32, 64}

MaxDepth == 16

LeafLens == {U(0), U(23), U(32767), <<0, 0, 32767, 65535>>, I64_MAX}
Fans == {1, 2, 16}

\* a slice holds at most isize::MAX bytes
FitsIsize(len, w) ==
    LET above == 4 - (w \div 16)
    IN  /\ \A i \in 1..above : len[i] = 0
        /\ len[above + 1] <= 32767

InitSize ==
    /\ width \in PointerWidths
    /\ checks \in BOOLEAN
    /\ \E len \in LeafLens, fan \in Fans, depth \in 0..MaxDepth :
            /\ FitsIsize(len, width)
            /\ sarg = [len |-> len, fan |-> fan, depth |-> depth]
    /\ sres = NoValue
    /\ narg = U(0) /\ nres = NoValue
    /\ value = Unsigned(U(0))
    /\ data = <<>>
    /\ pos = 0
    /\ stack = <<>>
    /\ result = NoResult
    /\ pc = "idle"
    /\ attempts = 0
    /\ last = NoCall
    /\ hmajor = 0 /\ hvalue = U(0) /\ hres = NoHeader
    /\ ReuseIdle /\ PairIdle

\* what an activation of encoded_size hands back for level d: with
\* overflow checks the first addition that overflows panics, without them
\* it wraps and the activation returns
Sized(r, d) ==
    IF r.overflow /\ checks THEN Panic
    ELSE [kind |-> IF d = sarg.depth THEN "size" ELSE "sizing",
          level |-> d, n |-> r.v, overflow |-> r.overflow]

\* let size = encoded_size(&tree): the recursion reaches the Bytes value,
\* whose activation returns
CallEncodedSize ==
    /\ sres = NoValue
    /\ sres' = Sized(encoded_size_usize(sarg, 0, [v |-> U(0), overflow |-> FALSE], width), 0)
    /\ UNCHANGED <<sarg, width, narg, checks, nres, encodeVars, headerVars, reuseVars,
                   pairVars>>

\* the activation for the Array one level up has added the size of each of
\* its items, and returns
ReturnSize ==
    /\ sres.kind = "sizing"
    /\ sres' = Sized(encoded_size_usize(sarg, sres.level + 1,
                                        [v |-> sres.n, overflow |-> sres.overflow], width),
                     sres.level + 1)
    /\ UNCHANGED <<sarg, width, narg, checks, nres, encodeVars, headerVars, reuseVars,
                   pairVars>>

NextSize == CallEncodedSize \/ ReturnSize

SpecSize == InitSize /\ [][NextSize]_vars

\* encode_header called with each major-type code the repository declares
DeclaredMajorCodes ==
    {MajorType[k] : k \in DOMAIN MajorType} \cup {major_type[k] : k \in DOMAIN major_type}

InitMajor ==
    /\ hmajor \in DeclaredMajorCodes
    /\ hvalue \in EncodedMagnitudes
    /\ hres = NoHeader
    /\ value = Unsigned(U(0))
    /\ data = <<>>
    /\ pos = 0
    /\ stack = <<>>
    /\ result = NoResult
    /\ pc = "idle"
    /\ attempts = 0
    /\ last = NoCall
    /\ SideIdle

NextMajor == CallEncodeHeader

SpecMajor == InitMajor /\ [][NextMajor]_vars

\* encode called on one value twice, one call after the other: call 0 with
\* a buffer of exactly encoded_size(value) bytes, call 1 with a buffer of
\* any capacity up to a few bytes more, holding other bytes
PrefixValues ==
    Documents \cup PairValues
    \cup {Unsigned(U(0)), Unsigned(<<258, 772, 1286, 1800>>), Simple(255),
          Bytes(<<>>), Bytes(<<1, 2, 3>>), Float(<<16393, 8697, 61467, 34414>>)}

\* a buffer in which no two neighbouring bytes are equal
Ramp(cap) == [i \in 1..cap |-> (7 * i + 100) % 256]

InitPrefix ==
    /\ value \in PrefixValues
    /\ \E cap \in 0..(encoded_size(value) + CapSlack + 1) :
         \E buf \in {Repeat(fill, cap) : fill \in Fills} \cup {Ramp(cap)} :
            bufs = <<Repeat(0, encoded_size(value)), buf>>
    /\ active = 1
    /\ parked = [t \in {2} |-> Fresh(bufs[2])]
    /\ data = bufs[1]
    /\ pos = 0
    /\ stack = <<>>
    /\ result = NoResult
    /\ pc = "ready"
    /\ attempts = 0
    /\ last = NoCall
    /\ hmajor = 0 /\ hvalue = U(0) /\ hres = NoHeader
    /\ NegativeIdle /\ ReuseIdle /\ SizeIdle

\* the first call has returned: the caller makes the second
SecondCall ==
    /\ active = 1 /\ pc = "done"
    /\ Switch(2)

NextPrefix == SecondCall \/ Next

SpecPrefix == InitPrefix /\ [][NextPrefix]_vars

\* encode as the calling thread runs it: started, it keeps taking steps
InitLive ==
    /\ value \in PrefixValues \cup TreesOf(2)
    /\ \E cap \in 0..(encoded_size(value) + CapSlack), fill \in Fills :
            data = Repeat(fill, cap)
    /\ pos = 0
    /\ stack = <<>>
    /\ result = NoResult
    /\ pc = "ready"
    /\ attempts = 0
    /\ last = NoCall
    /\ hmajor = 0 /\ hvalue = U(0) /\ hres = NoHeader
    /\ SideIdle

SpecLive == InitLive /\ [][Next]_vars /\ WF_vars(Next)

\* two values encoded one after the other, each into a buffer of its
\* encoded_size: values that are close to one another in variant, magnitude,
\* payload, count or descendants
InjectiveValues ==
    {Unsigned(m) : m \in {U(0), U(1), U(23), U(24), U(27), U(255), U(256), U(65535),
                          U(65536), U32_MAX, <<0, 1, 0, 0>>, <<65535, 65535, 65535, 65535>>}}
    \cup {Negative(m) : m \in {U(0), U(1), U(23), U(24), U(255), U(256)}}
    \cup {Simple(c) : c \in {0, 1, 20, 21, 22, 23, 24, 27, 31, 32, 255}}
    \cup {Float(b) : b \in FloatBits \cup {U(27), <<0, 1, 0, 0>>}}
    \cup {Bytes(b) : b \in {<<>>, <<0>>, <<1>>, <<24>>, <<97>>, <<1, 2>>, <<195, 169>>}}
    \cup {Text(t) : t \in {<<>>, <<97>>, <<233>>, <<97, 98>>}}
    \cup {Array(a) : a \in {<<>>, <<Unsigned(U(1))>>, <<Unsigned(U(2))>>,
                            <<Unsigned(U(1)), Unsigned(U(2))>>,
                            <<Array(<<>>)>>, <<Array(<<>>), Array(<<>>)>>,
                            <<Array(<<Unsigned(U(1))>>)>>, <<Array(<<Unsigned(U(2))>>)>>,
                            <<Bytes(<<>>)>>, <<Negative(U(1))>>}}
    \cup {Map(m) : m \in {<<>>, <<<<Unsigned(U(1)), Unsigned(U(2))>>>>,
                          <<<<Unsigned(U(2)), Unsigned(U(1))>>>>,
                          <<<<Unsigned(U(1)), Unsigned(U(3))>>>>,
                          <<<<Unsigned(U(1)), Unsigned(U(2))>>,
                            <<Unsigned(U(1)), Unsigned(U(2))>>>>,
                          <<<<Unsigned(U(1)), Array(<<>>)>>>>}}
    \cup {Tag(U(0), Unsigned(U(1))), Tag(U(1), Unsigned(U(1))), Tag(U(0), Unsigned(U(2))),
          Tag(U(24), Unsigned(U(1))), Tag(U(0), Tag(U(0), Unsigned(U(1)))),
          Tag(U(0), Float(U(1)))}

InitInjective ==
    /\ value \in InjectiveValues
    /\ data = Repeat(0, encoded_size(value))
    /\ pos = 0
    /\ stack = <<>>
    /\ result = NoResult
    /\ pc = "ready"
    /\ attempts = 0
    /\ last = NoCall
    /\ calls = 1
    /\ seen = {}
    /\ hmajor = 0 /\ hvalue = U(0) /\ hres = NoHeader
    /\ NegativeIdle /\ PairIdle /\ SizeIdle

\* the caller keeps the first outcome and encodes another value into a
\* buffer of that value's encoded_size
CallOther ==
    /\ pc = "done" /\ calls = 1
    /\ seen' = {[v |-> value, out |-> Outcome]}
    /\ \E other \in InjectiveValues \ {value} :
            /\ value' = other
            /\ data' = Repeat(0, encoded_size(other))
    /\ calls' = 2
    /\ pc' = "ready"
    /\ result' = NoResult
    /\ attempts' = 0
    /\ last' = NoCall
    /\ UNCHANGED <<pos, stack, headerVars, negativeVars, pairVars, sizeVars>>

NextInjective == CallOther \/ Next

SpecInjective == InitInjective /\ [][NextInjective]_vars

\* ------------------------------------------------------------- properties
\* the magnitude fits in 8, 16, 32 bits; is at most 23
Fits8(m) == m[1] = 0 /\ m[2] = 0 /\ m[3] = 0 /\ m[4] <= 255
Fits16(m) == m[1] = 0 /\ m[2] = 0 /\ m[3] = 0
Fits32(m) == m[1] = 0 /\ m[2] = 0
Inline(m) == Fits8(m) /\ m[4] <= 23

ExpectedExtra(m) ==
    IF Inline(m) THEN 0 ELSE IF Fits8(m) THEN 1 ELSE IF Fits16(m) THEN 2
    ELSE IF Fits32(m) THEN 4 ELSE 8

ExpectedInfo(m) ==
    IF Inline(m) THEN m[4] ELSE IF Fits8(m) THEN 24 ELSE IF Fits16(m) THEN 25
    ELSE IF Fits32(m) THEN 26 ELSE 27

\* the u64 that a sequence of at most 8 bytes spells, most significant first
FromBE(bytes) ==
    LET p == [k \in 1..8 |-> IF k <= 8 - Len(bytes) THEN 0 ELSE bytes[k - (8 - Len(bytes))]]
    IN  [i \in 1..4 |-> p[2 * i - 1] * 256 + p[2 * i]]

\* the magnitude the header of a value carries (Float has none)
MagnitudeOf(v) ==
    CASE v.tag \in {"Unsigned", "Negative", "Tag"} -> v.n
      [] v.tag = "Simple" -> U(v.s)
      [] v.tag = "Bytes" -> U(Len(v.b))
      [] v.tag = "Text" -> U(Len(as_bytes(v.t)))
      [] v.tag = "Array" -> U(Len(v.items))
      [] v.tag = "Map" -> U(Len(v.pairs))

\* C1: when encode has returned from a buffer of exactly encoded_size(value)
\* bytes, it returned Ok with a count equal to encoded_size(value).
SizeEncodeAgreement ==
    (pc = "done" /\ Len(data) = encoded_size(value))
        => (result.kind = "Ok" /\ result.n = encoded_size(value))

ExactFitDocumentEncoded ==
    /\ pc = "done" /\ result.kind = "Ok"
    /\ Len(data) = encoded_size(value)
    /\ value.tag = "Map" /\ Len(value.pairs) = 2 /\ value.pairs[2][2].tag = "Array"
    /\ result.n = 30

\* C2: when encode has returned from a buffer one byte shorter than
\* encoded_size(value), it returned Err(BufferOverflow) and no count.
OneByteShortOverflows ==
    (pc = "done" /\ Len(data) = encoded_size(value) - 1)
        => (result.kind = "Err" /\ result.err = "BufferOverflow")

OneByteShortFailed ==
    /\ pc = "done" /\ result.kind = "Err"
    /\ value = Unsigned(U(42)) /\ Len(data) = 1

\* C3: the extra-byte count and the additional-info code encode_header
\* returns are those of the thresholds 23, 255, 65535, 4294967295 applied
\* to the magnitude alone, and the eight boundary magnitudes fall where the
\* specification lists them.
HeaderThresholds ==
    hres.called =>
        /\ hres.len = ExpectedExtra(hvalue)
        /\ hres.header % 32 = ExpectedInfo(hvalue)
        /\ (hvalue = <<0, 0, 0, 23>> => hres.len = 0)
        /\ (hvalue = <<0, 0, 0, 24>> => hres.len = 1 /\ hres.extra[1] = 24)
        /\ (hvalue = <<0, 0, 0, 255>> => hres.len = 1)
        /\ (hvalue = <<0, 0, 0, 256>> => hres.len = 2)
        /\ (hvalue = <<0, 0, 0, 65535>> => hres.len = 2)
        /\ (hvalue = <<0, 0, 1, 0>> => hres.len = 4)
        /\ (hvalue = <<0, 0, 65535, 65535>> => hres.len = 4)
        /\ (hvalue = <<0, 1, 0, 0>> => hres.len = 8)

HeaderAtEightByteBoundary ==
    hres.called /\ hvalue = <<0, 1, 0, 0>> /\ hres.len = 8 /\ hmajor = 3

\* C4: the header byte encode_header returns has the major type in its top
\* 3 bits, and in its low 5 bits the magnitude when that is at most 23 and
\* one of 24, 25, 26, 27 otherwise.
HeaderByteLayout ==
    hres.called =>
        /\ hres.header \in Byte
        /\ hres.header \div 32 = hmajor
        /\ IF Inline(hvalue)
           THEN hres.header % 32 = hvalue[4]
           ELSE hres.header % 32 \in {24, 25, 26, 27}

HeaderByteOfSimple23 ==
    hres.called /\ hmajor = 7 /\ hvalue = <<0, 0, 0, 23>> /\ hres.header = 247

\* C5: in every activation of encode_value that is past its header, for a
\* magnitude above 23, the k extra bytes of encode_header (k one of 1, 2,
\* 4, 8) spell the magnitude most significant byte first, and they are the
\* k buffer bytes right after the header byte.
BigEndianArgument ==
    \A d \in 1..Len(stack) :
        LET f == stack[d]
        IN  (f.pc \notin {"header", "extra"} /\ f.v.tag # "Float"
                /\ ~Inline(MagnitudeOf(f.v)))
            => LET h == encode_header(MajorType[f.v.tag], MagnitudeOf(f.v))
                   k == h.len
               IN  /\ k \in {1, 2, 4, 8}
                   /\ FromBE(SubSeq(h.extra, 1, k)) = MagnitudeOf(f.v)
                   /\ data[f.start + 1] = h.header
                   /\ SubSeq(data, f.start + 2, f.start + 1 + k) = SubSeq(h.extra, 1, k)

EightByteArgumentWritten ==
    /\ stack # <<>> /\ Top.pc = "ret"
    /\ Top.v = Unsigned(<<258, 772, 1286, 1800>>)
    /\ SubSeq(data, 1, 9) = <<27, 1, 2, 3, 4, 5, 6, 7, 8>>

\* C6: a write_byte call made with position < capacity returned Ok, stored
\* the byte at index position, advanced the position by exactly 1 and
\* changed no other byte of the buffer.
WriteByteStores ==
    (last.called /\ last.pos < Len(last.data)) =>
        /\ last.res = "Ok"
        /\ pos = last.pos + 1
        /\ Len(data) = Len(last.data)
        /\ data[last.pos + 1] = last.byte
        /\ \A i \in 1..Len(data) : i # last.pos + 1 => data[i] = last.data[i]

WroteSecondByte ==
    /\ last.called /\ last.pos = 1 /\ last.res = "Ok"
    /\ Len(data) = 3 /\ last.byte = 255 /\ last.data[2] = 0

\* C7: a write_byte call made with position >= capacity returned
\* Err(BufferOverflow) and left every buffer byte and the position as they
\* were.
WriteByteOverflows ==
    (last.called /\ last.pos >= Len(last.data)) =>
        /\ last.res = "BufferOverflow"
        /\ data = last.data
        /\ pos = last.pos

WriteRefusedOnFullBuffer ==
    /\ last.called /\ last.res = "BufferOverflow"
    /\ Len(data) = 2 /\ last.pos = 2

\* the header byte and extra bytes of a major type and magnitude
HeaderBytes(major, m) ==
    LET h == encode_header(major, m)
    IN  <<h.header>> \o SubSeq(h.extra, 1, h.len)

\* the major type of a value's first byte
MajorOf(v) ==
    CASE v.tag = "Unsigned" -> 0 [] v.tag = "Negative" -> 1 [] v.tag = "Bytes" -> 2
      [] v.tag = "Text" -> 3 [] v.tag = "Array" -> 4 [] v.tag = "Map" -> 5
      [] v.tag = "Tag" -> 6 [] OTHER -> 7

\* the finished nested calls of activation f encoded exactly `children`, in
\* that order, each starting where the one before ended, the first right
\* after the hl header bytes of f, the last ending at the cursor
KidsFollow(f, children, hl) ==
    /\ Len(f.kids) = Len(children)
    /\ \A i \in 1..Len(f.kids) :
          /\ f.kids[i].v = children[i]
          /\ f.kids[i].from = (IF i = 1 THEN f.start + hl ELSE f.kids[i - 1].to)
          /\ f.kids[i].to > f.kids[i].from
          /\ data[f.kids[i].from + 1] \div 32 = MajorOf(children[i])
    /\ pos = (IF f.kids = <<>> THEN f.start + hl ELSE f.kids[Len(f.kids)].to)

\* C8: when an activation of encode_value for Array(items) is about to
\* return, at any depth, the bytes it wrote are the major-type-4 header of
\* Len(items) followed by the encodings of the items in sequence order;
\* [1, 2] gives 0x82 0x01 0x02.
ArrayEncoding ==
    \A d \in 1..Len(stack) :
        LET f == stack[d]
        IN  (f.pc = "ret" /\ f.v.tag = "Array") =>
                LET hb == HeaderBytes(4, U(Len(f.v.items)))
                IN  /\ SubSeq(data, f.start + 1, f.start + Len(hb)) = hb
                    /\ KidsFollow(f, f.v.items, Len(hb))
                    /\ (f.v.items = <<Unsigned(U(1)), Unsigned(U(2))>>
                            => SubSeq(data, f.start + 1, pos) = <<130, 1, 2>>)

NestedArrayEncoded ==
    /\ Len(stack) = 2 /\ Top.pc = "ret"
    /\ stack[1].v.tag = "Array" /\ stack[1].i = 1
    /\ Top.v = Array(<<Unsigned(U(3)), Unsigned(U(4))>>)
    /\ SubSeq(data, 1, pos) = <<130, 130, 1, 2, 130, 3, 4>>

\* C9: when an activation of encode_value for Map(pairs) is about to
\* return, the bytes it wrote are the major-type-5 header of the number of
\* pairs followed, pair by pair in the given order, by the encoding of the
\* key and then of its value, equal or unsorted keys included; one pair
\* gives the header byte 0xA1.
MapEncoding ==
    \A d \in 1..Len(stack) :
        LET f == stack[d]
        IN  (f.pc = "ret" /\ f.v.tag = "Map") =>
                LET hb == HeaderBytes(5, U(Len(f.v.pairs)))
                    kv == [k \in 1..(2 * Len(f.v.pairs)) |->
                             IF k % 2 = 1 THEN f.v.pairs[(k + 1) \div 2][1]
                                          ELSE f.v.pairs[k \div 2][2]]
                IN  /\ SubSeq(data, f.start + 1, f.start + Len(hb)) = hb
                    /\ KidsFollow(f, kv, Len(hb))
                    /\ (Len(f.v.pairs) = 1 => data[f.start + 1] = 161)

MapWithEqualKeysEncoded ==
    /\ Len(stack) = 1 /\ Top.pc = "ret"
    /\ Top.v = Map(<<<<Unsigned(U(1)), Simple(21)>>, <<Unsigned(U(1)), Simple(20)>>>>)
    /\ SubSeq(data, 1, pos) = <<162, 1, 245, 1, 244>>

\* C10: when an activation of encode_value for Bytes(b) or Text(t) is about
\* to return, the bytes it wrote are the major-type-2 header of b's length
\* followed by b, respectively the major-type-3 header of the length of t's
\* UTF-8 bytes followed by those bytes; an empty payload gives the single
\* byte 0x40, respectively 0x60.
StringEncoding ==
    \A d \in 1..Len(stack) :
        LET f == stack[d]
            written == SubSeq(data, f.start + 1, pos)
        IN  /\ (f.pc = "ret" /\ f.v.tag = "Bytes") =>
                    /\ written = HeaderBytes(2, U(Len(f.v.b))) \o f.v.b
                    /\ (f.v.b = <<>> => written = <<64>>)
            /\ (f.pc = "ret" /\ f.v.tag = "Text") =>
                    /\ written = HeaderBytes(3, U(Len(as_bytes(f.v.t)))) \o as_bytes(f.v.t)
                    /\ (f.v.t = <<>> => written = <<96>>)
                    /\ (f.v.t = <<233, 8364>>
                            => written = <<101, 195, 169, 226, 130, 172>>)

TextEncodedAsUtf8 ==
    /\ stack # <<>> /\ Top.pc = "ret"
    /\ Top.v = Text(<<233, 8364>>) /\ pos = 6 /\ data[1] = 101

\* C11: when an activation of encode_value for Tag(t, item) is about to
\* return, the bytes it wrote are the major-type-6 header of t followed by
\* the complete encoding of exactly one nested value, item, which ends where
\* the activation ends; and encoded_size(Tag(t, item)) is one byte, the extra
\* bytes of t and encoded_size(item).
TagEncoding ==
    \A d \in 1..Len(stack) :
        LET f == stack[d]
        IN  (f.pc = "ret" /\ f.v.tag = "Tag") =>
                LET hb == HeaderBytes(6, f.v.n)
                IN  /\ SubSeq(data, f.start + 1, f.start + Len(hb)) = hb
                    /\ KidsFollow(f, <<f.v.item>>, Len(hb))
                    /\ Len(f.kids) = 1
                    /\ f.kids[1].to - f.kids[1].from = encoded_size(f.v.item)
                    /\ encoded_size(f.v) = 1 + ExpectedExtra(f.v.n) + encoded_size(f.v.item)
                    /\ pos - f.start = encoded_size(f.v)

TaggedFloatEncoded ==
    /\ Len(stack) = 1 /\ Top.pc = "ret"
    /\ Top.v = Tag(U(1000), Float(<<16393, 8697, 61467, 34414>>))
    /\ pos = 12
    /\ SubSeq(data, 1, 4) = <<217, 3, 232, 251>>

\* the eight bytes of a 64-bit pattern, most significant first
PatternBytes(bits) ==
    <<bits[1] \div 256, bits[1] % 256, bits[2] \div 256, bits[2] % 256,
      bits[3] \div 256, bits[3] % 256, bits[4] \div 256, bits[4] % 256>>

\* C12: when an activation of encode_value for Float(f) is about to return,
\* whatever the bit pattern of f, it wrote exactly nine bytes: 0xFB, then the
\* eight bytes of the pattern from the most significant to the least; and
\* encoded_size(Float(f)) is 9.
FloatEncoding ==
    \A d \in 1..Len(stack) :
        LET f == stack[d]
            written == SubSeq(data, f.start + 1, pos)
        IN  (f.pc = "ret" /\ f.v.tag = "Float") =>
                /\ Len(written) = 9
                /\ written = <<251>> \o PatternBytes(f.v.bits)
                /\ FromBE(SubSeq(written, 2, 9)) = f.v.bits
                /\ encoded_size(f.v) = 9

PiEncoded ==
    /\ Len(stack) = 1 /\ Top.pc = "ret"
    /\ Top.v = Float(<<16393, 8697, 61467, 34414>>)
    /\ SubSeq(data, 1, pos) = <<251, 64, 9, 33, 249, 240, 27, 134, 110>>

\* C14: when an activation of encode_value for Simple(s) is about to return,
\* for every s in 0..255, it wrote the single byte 0xE0 | s when s <= 23 and
\* the two bytes 0xF8, s when s >= 24 (24..31 included); no code makes the
\* encoding fail in a buffer of two bytes or more; Value::bool builds
\* Simple(21) and Simple(20), written 0xF5 and 0xF4, and Value::null builds
\* Simple(22), written 0xF6.
SimpleEncoding ==
    /\ bool(TRUE) = Simple(21) /\ bool(FALSE) = Simple(20) /\ null = Simple(22)
    /\ \A d \in 1..Len(stack) :
        LET f == stack[d]
            written == SubSeq(data, f.start + 1, pos)
        IN  (f.pc = "ret" /\ f.v.tag = "Simple") =>
                /\ f.v.s <= 23 => written = <<224 + f.v.s>>
                /\ f.v.s >= 24 => written = <<248, f.v.s>>
                /\ f.v = bool(FALSE) => written = <<244>>
                /\ f.v = bool(TRUE) => written = <<245>>
                /\ f.v = null => written = <<246>>
    /\ (pc = "done" /\ value.tag = "Simple" /\ Len(data) >= 2) => result.kind = "Ok"

ReservedSimpleEncoded ==
    /\ Len(stack) = 1 /\ Top.pc = "ret"
    /\ Top.v = Simple(24)
    /\ SubSeq(data, 1, pos) = <<248, 24>>

RECURSIVE SizeSum(_)
\* the sum of the encoded sizes of a sequence of values
SizeSum(vs) == IF vs = <<>> THEN 0 ELSE encoded_size(Head(vs)) + SizeSum(Tail(vs))

RECURSIVE PairSizeSum(_)
\* the sum of the encoded sizes of the keys and values of a sequence of pairs
PairSizeSum(ps) ==
    IF ps = <<>> THEN 0
    ELSE encoded_size(Head(ps)[1]) + encoded_size(Head(ps)[2]) + PairSizeSum(Tail(ps))

\* what follows the header in the size of a value, by variant
SizeAfterHeader(v) ==
    CASE v.tag \in {"Unsigned", "Negative", "Simple"} -> 0
      [] v.tag = "Bytes" -> Len(v.b)
      [] v.tag = "Text" -> Len(as_bytes(v.t))
      [] v.tag = "Array" -> SizeSum(v.items)
      [] v.tag = "Map" -> PairSizeSum(v.pairs)
      [] v.tag = "Tag" -> encoded_size(v.item)

\* C15: for the value and every subtree of it that encode_value enters,
\* encoded_size is 9 for a Float and otherwise one byte, plus 0, 1, 2, 4 or 8
\* extra bytes by the size of the magnitude, plus nothing (Unsigned,
\* Negative, Simple), the payload length (Bytes, Text), the sizes of the
\* items (Array) or the sizes of each key and each value (Map).
SizeFormula ==
    \A d \in 1..Len(stack) :
        LET f == stack[d]
        IN  f.pc = "header" =>
                encoded_size(f.v) =
                    IF f.v.tag = "Float" THEN 9
                    ELSE 1 + ExpectedExtra(MagnitudeOf(f.v)) + SizeAfterHeader(f.v)

MapSizeComputed ==
    /\ value = Tag(U(24), Map(<<<<Negative(U(999)), Array(<<Negative(U(9))>>)>>>>))
    /\ Len(stack) = 2 /\ Top.pc = "header"
    /\ Top.v.tag = "Map"
    /\ encoded_size(Top.v) = 6
    /\ encoded_size(value) = 8

\* C16: write_byte fails at most once in a call of encode: after a failed
\* write_byte no write_byte is called again (the calls are one more than the
\* bytes stored), encode_value has unwound, and encode has returned
\* Err(BufferOverflow) and no count.
AbortOnFirstFailure ==
    LET failed == attempts - pos
    IN  /\ failed \in {0, 1}
        /\ failed = 1 <=> (last.called /\ last.res = "BufferOverflow")
        /\ failed = 1 =>
                /\ pc = "done" /\ stack = <<>>
                /\ result = [kind |-> "Err", err |-> "BufferOverflow"]
        /\ result.kind = "Ok" => failed = 0

AbortedBeforeSecondItem ==
    /\ value = Array(<<Array(<<Unsigned(U(1)), Unsigned(U(2))>>),
                       Array(<<Unsigned(U(3)), Unsigned(U(4))>>)>>)
    /\ Len(data) = 3 /\ pos = 3 /\ attempts = 4
    /\ pc = "done" /\ result.kind = "Err"

\* C13: for every negative i64 v, Value::negative(v) returns Negative(n)
\* with n = -v - 1 (n + v + 1 = 0, n below 2^63, so -1 - n = v), and the
\* value encodes as the major-type-1 header of n; v = -10 gives n = 9 and
\* the single byte 0x29.
NegativeMapping ==
    (IsNegativeI64(narg) /\ nres # NoValue) =>
        /\ nres.kind = "value"
        /\ nres.v.tag = "Negative"
        /\ LET n == nres.v.n
           IN  /\ n[1] < 32768
               /\ WrappingAdd(WrappingAdd(n, narg), U(1)) = U(0)
               /\ Not64(n) = narg
               /\ narg = <<65535, 65535, 65535, 65526>> => n = U(9)
               /\ pc = "done" =>
                    /\ result = [kind |-> "Ok", n |-> 1 + ExpectedExtra(n)]
                    /\ SubSeq(data, 1, result.n) = HeaderBytes(1, n)
                    /\ data[1] \div 32 = 1
                    /\ narg = <<65535, 65535, 65535, 65526>> =>
                            SubSeq(data, 1, result.n) = <<41>>

MinusTenEncoded ==
    /\ narg = <<65535, 65535, 65535, 65526>>
    /\ nres = [kind |-> "value", v |-> Negative(U(9))]
    /\ pc = "done" /\ result = [kind |-> "Ok", n |-> 1]
    /\ data[1] = 41

\* C17: in a sequence of encode calls on one buffer, every call starts its
\* position at 0 and its outermost value at offset 0; what a call returns
\* and the bytes below the returned count are those of any earlier call on
\* the same value, whatever was encoded in between, and are fixed by the
\* value and the capacity; on success the count is the final position.
ReuseIndependence ==
    /\ (pc = "run" /\ attempts = 0) => pos = 0
    /\ pc = "run" => stack[1].start = 0
    /\ pc = "done" =>
        /\ \A e \in seen : e.v = value => e.out = Outcome
        /\ result.kind = "Ok" <=> encoded_size(value) <= Len(data)
        /\ result.kind = "Ok" => result.n = pos /\ result.n = encoded_size(value)
        /\ result.kind = "Ok" => pos = attempts

ThirdCallRepeatsFirst ==
    /\ calls = 3 /\ pc = "done"
    /\ value = Array(<<Unsigned(U(1)), Unsigned(U(2))>>)
    /\ [v |-> value, out |-> Outcome] \in seen
    /\ [v |-> Tag(U(0), Bytes(<<1, 2, 3>>)),
        out |-> [result |-> [kind |-> "Err", err |-> "BufferOverflow"], prefix |-> <<>>]]
            \in seen
    /\ data = <<130, 1, 2, 2>>

\* the bytes a finished call reports: those below the returned count
PrefixOf(c) == IF c.result.kind = "Ok" THEN SubSeq(c.data, 1, c.result.n) ELSE <<>>

\* C18: any two finished encode calls on the same value, with buffers of
\* the same capacity whatever their initial contents, returned the same
\* result and, on success, left the same bytes at 0..count-1.
Determinism ==
    \A t \in Calls, u \in Calls :
        (CallState(t).pc = "done" /\ CallState(u).pc = "done") =>
            /\ CallState(t).result = CallState(u).result
            /\ PrefixOf(CallState(t)) = PrefixOf(CallState(u))

SameBytesOverOtherContents ==
    /\ value = Map(<<<<Unsigned(U(1)), Text(<<233>>)>>>>)
    /\ bufs[0] = <<0, 0, 0, 0, 0, 0>> /\ bufs[2] = <<255, 255, 255, 255, 255, 255>>
    /\ CallState(0).pc = "done" /\ CallState(2).pc = "done"
    /\ CallState(2).result = [kind |-> "Ok", n |-> 5]
    /\ CallState(0).data = <<161, 1, 98, 195, 169, 0>>
    /\ CallState(2).data = <<161, 1, 98, 195, 169, 255>>

\* C19: an encode call whose steps were interleaved with those of another
\* call on the same value, in any order, finished with the result and the
\* whole buffer of the call that ran alone on an equal buffer.
InterleavingIndependence ==
    \A t \in Calls \ {0} :
        (CallState(t).pc = "done" /\ bufs[t] = bufs[0]) =>
            /\ CallState(0).pc = "done"
            /\ CallState(t).result = CallState(0).result
            /\ CallState(t).data = CallState(0).data
            /\ CallState(t).pos = CallState(0).pos

InterleavedCallFinished ==
    /\ value = Array(<<Unsigned(U(1)), Unsigned(U(2))>>)
    /\ active = 1 /\ pc = "done" /\ data = <<130, 1, 2>>
    /\ bufs[1] = bufs[0]
    /\ parked[2].pc = "run" /\ parked[2].pos = 2
    /\ parked[2].last.called /\ last.pos = 2

\* C20: encoded_size cannot fail: whatever the tree, subtrees shared by many
\* references included, the call returns a size and none of its usize
\* additions left the machine word.
SizeAdditionsFit ==
    sres # NoValue => (sres.kind \in {"sizing", "size"} /\ ~sres.overflow)

\* C21: every major-type code the repository declares is between 0 and 7,
\* the header byte built from it carries it in its high-order 3 bits, and
\* the code declared for floating point is 7.
MajorCodesFit ==
    /\ hmajor \in 0..7
    /\ hmajor = major_type.FLOAT => hmajor = MajorType.Simple
    /\ hres.called => hres.header \div 32 = hmajor

\* one step of an encoding pass, as the writer sees it
PositionStep ==
    /\ pos' >= pos /\ pos' <= pos + 1
    /\ Len(data') = Len(data)
    /\ data' # data => pos < Len(data)
    /\ \A i \in 1..Len(data) : i # pos + 1 => data'[i] = data[i]
    /\ (attempts' # attempts /\ last'.res = "Ok") =>
            /\ last'.pos < Len(last'.data)
            /\ pos' = pos + 1
            /\ data'[pos + 1] = last'.byte

\* C22: throughout an encoding pass 0 <= position <= capacity; no step
\* lowers the position or raises it by more than 1; the capacity does not
\* change; and every store is at the index of the position, which is below
\* the capacity, every other byte being left as it was.
PositionBounded ==
    /\ [](pos >= 0 /\ pos <= Len(data))
    /\ [][PositionStep]_vars

PositionAtCapacity ==
    /\ pc = "done" /\ result.kind = "Err"
    /\ pos = Len(data) /\ pos = 5
    /\ last.pos = 5 /\ last.res = "BufferOverflow"
    /\ value.tag = "Map"

\* C23: when encode has failed on a buffer of capacity c below
\* encoded_size(value), the write that failed was attempted at position c,
\* the position is still c, and the buffer holds the first c bytes of what
\* encode wrote for the same value into a buffer that was large enough.
OverflowAtBoundary ==
    (active = 2 /\ pc = "done" /\ Len(data) < encoded_size(value)) =>
        LET c == Len(data)
            full == parked[1]
        IN  /\ full.result = [kind |-> "Ok", n |-> encoded_size(value)]
            /\ result = [kind |-> "Err", err |-> "BufferOverflow"]
            /\ last.res = "BufferOverflow" /\ last.pos = c
            /\ pos = c
            /\ data = SubSeq(full.data, 1, c)

PrefixCommitted ==
    /\ active = 2 /\ pc = "done"
    /\ value = Tag(U(1000), Float(<<16393, 8697, 61467, 34414>>))
    /\ bufs[2] = Ramp(7)
    /\ pos = 7 /\ result.kind = "Err"
    /\ data = <<217, 3, 232, 251, 64, 9, 33>>

\* C26: when encode has returned Ok(n) on a buffer of capacity above n,
\* every byte at index n or above is the byte the buffer held before the
\* call.
TailUntouched ==
    (active = 2 /\ pc = "done" /\ result.kind = "Ok") =>
        /\ Len(data) = Len(bufs[2])
        /\ \A i \in (result.n + 1)..Len(data) : data[i] = bufs[2][i]

TailKeptAfterSuccess ==
    /\ active = 2 /\ pc = "done"
    /\ value = Array(<<Unsigned(U(1)), Unsigned(U(2))>>)
    /\ result = [kind |-> "Ok", n |-> 3]
    /\ bufs[2] = Ramp(5)
    /\ data = <<130, 1, 2, 128, 135>>

\* C24: every call of encode comes to return, with a count or with
\* BufferOverflow, and at no time has it called write_byte more often than
\* the encoding of the value has bytes.
EncodeTerminates ==
    /\ <>(pc = "done" /\ result.kind \in {"Ok", "Err"})
    /\ [](attempts <= encoded_size(value))

WideArrayEncoded ==
    /\ value = Array(Repeat(Unsigned(U(1)), WideLen))
    /\ pc = "done" /\ result.kind = "Ok"
    /\ attempts = encoded_size(value) /\ attempts = WideLen + 2
    /\ Len(data) = attempts + 1

\* C25: for every i64 argument, the extremes and the non-negative ones
\* included, Value::negative returns a value, and neither its addition nor
\* its negation left the i64 range.
NegativeNeverOverflows ==
    nres # NoValue =>
        /\ nres.kind = "value"
        /\ ~I64Add(narg, U(1)).overflow
        /\ ~I64Neg(I64Add(narg, U(1)).v).overflow

\* a is b or the beginning of b
IsPrefix(a, b) == Len(a) <= Len(b) /\ SubSeq(b, 1, Len(a)) = a

\* C27: the encodings of two different values are different byte sequences
\* and neither is the beginning of the other; an encoding begins with 0xFB
\* exactly when the value is a Float.
InjectivePrefixFree ==
    (pc = "done" /\ calls >= 1 /\ result.kind = "Ok") =>
        /\ data[1] = 251 <=> value.tag = "Float"
        /\ \A e \in seen :
            e.v # value =>
                /\ e.out.result.kind = "Ok"
                /\ ~IsPrefix(e.out.prefix, Outcome.prefix)
                /\ ~IsPrefix(Outcome.prefix, e.out.prefix)

MapAndArrayDiffer ==
    /\ calls = 2 /\ pc = "done"
    /\ seen = {[v |-> Map(<<<<Unsigned(U(1)), Unsigned(U(2))>>>>),
                out |-> [result |-> [kind |-> "Ok", n |-> 3], prefix |-> <<161, 1, 2>>]]}
    /\ value = Array(<<Unsigned(U(1)), Unsigned(U(2))>>)
    /\ data = <<130, 1, 2>>

====
